---- MODULE Spec2Model ----
(***************************************************************************)
(* A state-machine model of the retrieval-and-context-assembly pipeline:   *)
(* TextChunker (chunking_utility.py), TextCleaner and FAQFinder            *)
(* (text_cleaner.py, faq_finder.py), SemanticSimilarity                    *)
(* (semantic_similarity.py), GeminiWrapper (gemini_wrapper.py),            *)
(* KnowledgeBase (knowledge_base.py) and RAGAgent (rag_agent.py).          *)
(*                                                                         *)
(* Representation of Python values:                                        *)
(*  - a text handed to the chunker is the sequence of its whitespace-      *)
(*    delimited tokens (what text.split() returns); a token is "w" (no     *)
(*    terminal punctuation) or "w." (ends with one of . ! ?);              *)
(*  - a text handed to the cleaner or the FAQ finder is a sequence of       *)
(*    one-character strings;                                               *)
(*  - a vector is a sequence of integers; the float d / (sqrt(s1) *        *)
(*    sqrt(s2)) is the pair of its sign and its square d*d / (s1*s2);      *)
(*  - a float score len(a)/len(b) is the pair <<a, b>> (b > 0), compared   *)
(*    by cross-multiplication; 0.0 is <<0, 1>>;                            *)
(*  - a prompt is the sequence of its segments in textual order;           *)
(*  - a passage text is the first `len` characters of a named document,    *)
(*    with or without the marker "..." after them.                         *)
(***************************************************************************)
EXTENDS Integers, Sequences, FiniteSets, TLC

VARIABLES
    \* ---- TextChunker ----
    words,              \* text.split() of the text being chunked
    chunk_size,         \* self.chunk_size
    overlap,            \* self.overlap
    method,             \* the chunking method running ("words" | "sentences" | "none")
    chunks,             \* the list being built / returned
    chunk_id,           \* local chunk_id
    start,              \* chunk_by_words: local start
    sent_idx,           \* chunk_by_sentences: position of the for loop (sentences consumed)
    current_chunk,      \* chunk_by_sentences: local current_chunk (sentence positions)
    current_word_count, \* chunk_by_sentences: local current_word_count
    pc,                 \* "loop" while the running chunker iterates, "done" once it returned
    \* ---- FAQFinder ----
    faqs,               \* self.faqs
    faq_call,           \* the arguments of the last find_answer call
    faq_result,         \* what that call returned or raised
    \* ---- TextCleaner ----
    cleaner_call,       \* the last TextCleaner call: the method and its argument
    cleaner_ret,        \* what that call returned
    \* ---- SemanticSimilarity ----
    cos_call,           \* the arguments of the last cosine_similarity call
    cos_ret,            \* what that call returned or raised
    \* ---- GeminiWrapper ----
    history,            \* self.history
    persona,            \* self.persona
    has_transcript,     \* hasattr(self, '_chat_transcript')
    chat_transcript,    \* self._chat_transcript (<<>> while the attribute is not set)
    \* ---- RAGAgent / KnowledgeBase ----
    knowledge_base,     \* self.knowledge_base is not None
    collection,         \* the chunks stored in the KnowledgeBase's collection
    \* ---- the last operation on the agent or its wrapper ----
    rag_call,           \* the operation and its arguments
    rag_ret,            \* what it returned or raised
    calls_log           \* the collaborator calls it made, in order

chunkerVars == <<words, chunk_size, overlap, method, chunks, chunk_id, start,
                 sent_idx, current_chunk, current_word_count, pc>>

faqVars == <<faqs, faq_call, faq_result>>
ragVars == <<history, persona, has_transcript, chat_transcript, knowledge_base,
             collection, rag_call, rag_ret, calls_log>>
utilVars == <<cleaner_call, cleaner_ret, cos_call, cos_ret>>
nonChunkerVars == <<faqVars, ragVars, utilVars>>
nonFaqVars == <<chunkerVars, ragVars, utilVars>>
nonRagVars == <<chunkerVars, faqVars, utilVars>>
nonCleanerVars == <<chunkerVars, faqVars, ragVars, cos_call, cos_ret>>
nonCosineVars == <<chunkerVars, faqVars, ragVars, cleaner_call, cleaner_ret>>

vars == <<chunkerVars, faqVars, ragVars, utilVars>>

(***************************************************************************)
(* Bounds of the model.                                                    *)
(***************************************************************************)
MaxWords == 6
MaxChunkSize == 3
MaxOverlap == 3
MaxFaqs == 2
MaxHistory == 2
MaxTurns == 14
MaxText == 3
MaxDim == 2

(***************************************************************************)
(* Python helpers.                                                         *)
(***************************************************************************)
Min(a, b) == IF a <= b THEN a ELSE b
Max(a, b) == IF a >= b THEN a ELSE b

\* Python's s[a:b] for integers a, b (negative indices count from the end).
PyIndex(i, n) == IF i < 0 THEN Max(i + n, 0) ELSE Min(i, n)
PySlice(s, a, b) ==
    LET lo == PyIndex(a, Len(s))
        hi == PyIndex(b, Len(s))
    IN  IF lo < hi THEN SubSeq(s, lo + 1, hi) ELSE <<>>

RECURSIVE SumSeq(_)
SumSeq(s) == IF s = <<>> THEN 0 ELSE Head(s) + SumSeq(Tail(s))

RECURSIVE Concat(_)
Concat(ss) == IF ss = <<>> THEN <<>> ELSE Head(ss) \o Concat(Tail(ss))

Range(s) == {s[i] : i \in 1..Len(s)}

\* Optional values (Python's None).
None == [some |-> FALSE, val |-> <<>>]
Some(x) == [some |-> TRUE, val |-> x]
NoneStr == [some |-> FALSE, val |-> ""]
SomeStr(x) == [some |-> TRUE, val |-> x]
NoText == [doc |-> "", len |-> 0, marker |-> ""]

\* Floats that are quotients of two small naturals, in lowest terms.
RECURSIVE Gcd(_, _)
Gcd(a, b) == IF b = 0 THEN a ELSE Gcd(b, a % b)
Rat(n, d) == IF n = 0 THEN <<0, 1>> ELSE <<n \div Gcd(n, d), d \div Gcd(n, d)>>
RatLess(x, y) == x[1] * y[2] < y[1] * x[2]
Zero == Rat(0, 1)

(***************************************************************************)
(* Values of the idle components, and the result of a find_answer call.    *)
(***************************************************************************)
Returned(answer, confidence, matched_question) ==
    [kind |-> "return", answer |-> answer, confidence |-> confidence,
     matched_question |-> matched_question]
\* best_match['answer'] with best_match None: TypeError.
Raised == [kind |-> "raise", answer |-> "TypeError", confidence |-> Zero,
           matched_question |-> None]
NoResult == [kind |-> "none", answer |-> "", confidence |-> Zero, matched_question |-> None]

NoCall == [called |-> FALSE, user_question |-> <<>>, threshold |-> Zero]

FaqIdle == faqs = <<>> /\ faq_call = NoCall /\ faq_result = NoResult

\* No TextCleaner method and no cosine_similarity has been called.
NoCleanerCall == [op |-> "none", text |-> <<>>]
NoCleanerRet == [text |-> <<>>, tokens |-> <<>>]
CleanerIdle == cleaner_call = NoCleanerCall /\ cleaner_ret = NoCleanerRet
NoCosCall == [called |-> FALSE, vec1 |-> <<>>, vec2 |-> <<>>]
CosReturned(sign, square) == [kind |-> "return", sign |-> sign, square |-> square]
CosRaised(error) == [kind |-> error, sign |-> 0, square |-> Zero]
NoCosRet == [kind |-> "none", sign |-> 0, square |-> Zero]
CosineIdle == cos_call = NoCosCall /\ cos_ret = NoCosRet
UtilIdle == CleanerIdle /\ CosineIdle

NoAnswerResult ==
    [query |-> "", answer |-> "", sources |-> <<>>, num_sources |-> 0, has_sources |-> FALSE]
NoRagCall == [op |-> "none", arg |-> "", top_k |-> 0]
NoRagRet == [kind |-> "none", text |-> "", result |-> NoAnswerResult]
ReturnedText(text) == [kind |-> "return", text |-> text, result |-> NoAnswerResult]
ReturnedResult(result) == [kind |-> "return", text |-> "", result |-> result]
RaisedError(e) == [kind |-> "raise", text |-> e, result |-> NoAnswerResult]

\* No agent operation has run; no conversation, no stored chunk.
RagIdleInit ==
    /\ history = <<>> /\ has_transcript = FALSE /\ chat_transcript = <<>>
    /\ collection = {} /\ rag_call = NoRagCall /\ rag_ret = NoRagRet /\ calls_log = <<>>
RagIdle == RagIdleInit /\ persona = NoneStr /\ knowledge_base = FALSE


(***************************************************************************)
(* TextChunker                                                             *)
(***************************************************************************)
DefaultChunkSize == 500
DefaultOverlap == 50

Tokens == {"w", "w."}
IsTerminal(tok) == tok = "w."

\* No chunker is running.
ChunkerIdle ==
    /\ words = <<>> /\ chunk_size = DefaultChunkSize /\ overlap = DefaultOverlap
    /\ method = "none" /\ chunks = <<>> /\ chunk_id = 0 /\ start = 0
    /\ sent_idx = 0 /\ current_chunk = <<>> /\ current_word_count = 0 /\ pc = "done"

\* The texts the model chunks: every token sequence up to MaxWords, and the
\* 1200-word document of the default configuration.
ScenarioText == [i \in 1..1200 |-> "w"]
RECURSIVE SeqsUpTo(_, _)
SeqsUpTo(S, n) ==
    IF n = 0 THEN {<<>>}
    ELSE LET prev == SeqsUpTo(S, n - 1)
         IN  prev \cup {Append(s, x) : s \in {t \in prev : Len(t) = n - 1}, x \in S}
Texts == SeqsUpTo(Tokens, MaxWords)

\* split_into_sentences: re.split(r'(?<=[.!?])\s+', text), empty pieces dropped.
\* On the token sequence: a sentence ends after each token that ends with
\* terminal punctuation; the tokens after the last such token form the last
\* sentence.  Each sentence is returned as the sequence of its tokens.
SentenceEnds(text) ==
    {i \in 1..Len(text) : IsTerminal(text[i])} \cup (IF text = <<>> THEN {} ELSE {Len(text)})
split_into_sentences(text) ==
    LET E == SentenceEnds(text)
        endOf(k) == CHOOSE e \in E : Cardinality({x \in E : x <= e}) = k
    IN  [k \in 1..Cardinality(E) |->
            SubSeq(text, IF k = 1 THEN 1 ELSE endOf(k - 1) + 1, endOf(k))]

\* count_words: len(text.split())
count_words(sentence) == Len(sentence)

\* ' '.join(list of sentences): the tokens of the sentences, in order.
JoinSentences(ss) == Concat(ss)

sentences == split_into_sentences(words)

WordChunk(id, s, e, chunk_words) ==
    [chunk_id |-> id, text |-> chunk_words, start_word |-> s, end_word |-> e,
     word_count |-> Len(chunk_words), method |-> "word-based"]

\* current_chunk holds positions into `sentences`; the chunk's text is the
\* join of those sentences.
SentenceChunk(id, cur, wc) ==
    [chunk_id |-> id, text |-> JoinSentences([k \in 1..Len(cur) |-> sentences[cur[k]]]),
     sents |-> cur, sentence_count |-> Len(cur), word_count |-> wc,
     method |-> "sentence-based"]

ChunkerInit ==
    /\ FaqIdle /\ RagIdle /\ UtilIdle
    /\ \E cfg \in (Texts \X ((-MaxChunkSize)..MaxChunkSize) \X ((-MaxOverlap)..MaxOverlap))
                  \cup {<<ScenarioText, DefaultChunkSize, DefaultOverlap>>} :
          /\ words = cfg[1]
          /\ chunk_size = cfg[2]
          /\ overlap = cfg[3]
    /\ method \in {"words", "sentences"}
    /\ chunks = <<>>
    /\ chunk_id = 0
    /\ start = 0
    /\ sent_idx = 0
    /\ current_chunk = <<>>
    /\ current_word_count = 0
    /\ pc = "loop"

\* end = min(start + self.chunk_size, len(words)) (line 42)
WindowEndNoClamp(s) == s + chunk_size
WindowEnd(s) == Min(s + chunk_size, Len(words))

\* start = end - self.overlap (line 56)
NextStartNoOverlap(end) == end
NextStart(end) == end - overlap

\* if start <= chunks[-1]['start_word'] (line 58)
NoAdvanceNever(next_start, prev_start) == FALSE
NoAdvance(next_start, prev_start) == next_start <= prev_start

\* One iteration of the while loop of chunk_by_words (lines 41-59).
WordsIter ==
    /\ method = "words" /\ pc = "loop"
    /\ start < Len(words)
    /\ LET end == WindowEnd(start)
           chunk_words == PySlice(words, start, end)
           next_start == NextStart(end)
       IN  /\ chunks' = Append(chunks, WordChunk(chunk_id, start, end, chunk_words))
           /\ chunk_id' = chunk_id + 1
           /\ start' = next_start
           /\ pc' = IF NoAdvance(next_start, start) THEN "done" ELSE "loop"
    /\ UNCHANGED <<words, chunk_size, overlap, method, sent_idx, current_chunk,
                   current_word_count>>
    /\ UNCHANGED nonChunkerVars

\* The while condition fails: return chunks (line 61).
WordsExit ==
    /\ method = "words" /\ pc = "loop"
    /\ ~(start < Len(words))
    /\ pc' = "done"
    /\ UNCHANGED <<words, chunk_size, overlap, method, chunks, chunk_id, start,
                   sent_idx, current_chunk, current_word_count>>
    /\ UNCHANGED nonChunkerVars

\* current_chunk[-2:] if len(current_chunk) >= 2 else current_chunk (line 86)
OverlapSentencesLastOnly(cur) == PySlice(cur, -1, Len(cur))
OverlapSentences(cur) == IF Len(cur) >= 2 THEN PySlice(cur, -2, Len(cur)) ELSE cur

\* The split test of line 76.
MustClose(wc, swc, cur) == wc + swc > chunk_size /\ cur # <<>>

\* One iteration of the for loop of chunk_by_sentences (lines 73-93).
SentencesIter ==
    /\ method = "sentences" /\ pc = "loop"
    /\ sent_idx < Len(sentences)
    /\ LET k == sent_idx + 1
           sentence_word_count == count_words(sentences[k])
           close == MustClose(current_word_count, sentence_word_count, current_chunk)
           kept == IF close THEN OverlapSentences(current_chunk) ELSE current_chunk
           kept_count == IF close
                         THEN SumSeq([j \in 1..Len(kept) |-> count_words(sentences[kept[j]])])
                         ELSE current_word_count
       IN  /\ chunks' = IF close
                        THEN Append(chunks, SentenceChunk(chunk_id, current_chunk,
                                                          current_word_count))
                        ELSE chunks
           /\ chunk_id' = IF close THEN chunk_id + 1 ELSE chunk_id
           /\ current_chunk' = Append(kept, k)
           /\ current_word_count' = kept_count + sentence_word_count
           /\ sent_idx' = k
    /\ UNCHANGED <<words, chunk_size, overlap, method, start, pc>>
    /\ UNCHANGED nonChunkerVars

\* The for loop is exhausted: append the last chunk, return (lines 95-104).
SentencesExit ==
    /\ method = "sentences" /\ pc = "loop"
    /\ sent_idx = Len(sentences)
    /\ chunks' = IF current_chunk # <<>>
                 THEN Append(chunks, SentenceChunk(chunk_id, current_chunk,
                                                   current_word_count))
                 ELSE chunks
    /\ pc' = "done"
    /\ UNCHANGED <<words, chunk_size, overlap, method, chunk_id, start, sent_idx,
                   current_chunk, current_word_count>>
    /\ UNCHANGED nonChunkerVars

ChunkerNext == WordsIter \/ WordsExit \/ SentencesIter \/ SentencesExit

\* A chunker object: the attributes __init__ sets (lines 16-18).
Chunker(size, lap) == [chunk_size |-> size, overlap |-> lap]

\* The sentences a chunker `self` carries over into the next chunk (line 86);
\* self.overlap is available there and is not read.
SeedByOverlap(self, cur) == PySlice(cur, -self.overlap, Len(cur))
SeedSentences(self, cur) == OverlapSentences(cur)

\* The for loop of chunk_by_sentences (lines 73-93) from sentence k on, and
\* the final append (lines 95-102), for a chunker `self` on the text `words`.
RECURSIVE SentenceLoop(_, _, _, _, _, _)
SentenceLoop(self, k, out, cur, wc, id) ==
    IF k > Len(sentences)
    THEN IF cur # <<>> THEN Append(out, SentenceChunk(id, cur, wc)) ELSE out
    ELSE LET sentence_word_count == count_words(sentences[k])
             close == wc + sentence_word_count > self.chunk_size /\ cur # <<>>
             kept == IF close THEN SeedSentences(self, cur) ELSE cur
             kept_count == IF close
                           THEN SumSeq([j \in 1..Len(kept) |-> count_words(sentences[kept[j]])])
                           ELSE wc
         IN  SentenceLoop(self, k + 1,
                          IF close THEN Append(out, SentenceChunk(id, cur, wc)) ELSE out,
                          Append(kept, k), kept_count + sentence_word_count,
                          IF close THEN id + 1 ELSE id)

\* TextChunker.chunk_by_sentences (lines 63-104) of a chunker `self` on `words`.
chunk_by_sentences(self) == SentenceLoop(self, 1, <<>>, <<>>, 0, 0)

SpecChunker == ChunkerInit /\ [][ChunkerNext]_vars
(***************************************************************************)
(* Properties of TextChunker                                               *)
(***************************************************************************)
WordsDone == method = "words" /\ pc = "done"
SentencesRun == method = "sentences"
IsScenario == words = ScenarioText /\ chunk_size = DefaultChunkSize /\ overlap = DefaultOverlap
WordCounts == [k \in 1..Len(chunks) |-> chunks[k].word_count]
StartWords == [k \in 1..Len(chunks) |-> chunks[k].start_word]
\* The word positions (1-based) a word-based chunk holds.
Span(c) == (c.start_word + 1)..c.end_word

C2_Coverage ==
    (WordsDone /\ chunk_size > 0 /\ 0 <= overlap /\ overlap < chunk_size) =>
        /\ (words # <<>>) => (chunks # <<>>)
        /\ (chunks # <<>>) =>
              /\ chunks[1].start_word = 0
              /\ chunks[Len(chunks)].end_word = Len(words)
        /\ \A k \in 1..Len(chunks) :
              chunks[k].text = SubSeq(words, chunks[k].start_word + 1, chunks[k].end_word)
        /\ UNION {Span(chunks[k]) : k \in 1..Len(chunks)} = 1..Len(words)
        /\ \A k \in 2..Len(chunks) :
              /\ chunks[k].start_word = chunks[k - 1].end_word - overlap
              /\ Cardinality(Span(chunks[k]) \cap Span(chunks[k - 1])) = overlap

C2_Witness ==
    /\ WordsDone /\ overlap >= 1 /\ overlap < chunk_size
    /\ Len(chunks) >= 3 /\ Len(words) <= MaxWords

\* C3: chunk_by_sentences never splits a sentence: every chunk is the join of
\* whole consecutive sentences of the input, and when a chunk N+1 follows a
\* chunk N it begins with the last two sentences of chunk N (its only
\* sentence when it has one), followed by at least one sentence that is not
\* in chunk N.
IsConsecutive(s) == \A k \in 1..(Len(s) - 1) : s[k + 1] = s[k] + 1
C3_WholeSentences ==
    SentencesRun =>
        /\ \A n \in 1..Len(chunks) :
              LET c == chunks[n]
              IN  /\ c.sents # <<>>
                  /\ Range(c.sents) \subseteq 1..Len(sentences)
                  /\ IsConsecutive(c.sents)
                  /\ c.sentence_count = Len(c.sents)
                  /\ c.text = SubSeq(words,
                                     SumSeq([j \in 1..(c.sents[1] - 1) |-> Len(sentences[j])]) + 1,
                                     SumSeq([j \in 1..c.sents[Len(c.sents)] |-> Len(sentences[j])]))
        /\ \A n \in 1..(Len(chunks) - 1) :
              LET a == chunks[n].sents
                  b == chunks[n + 1].sents
                  m == Min(2, Len(a))
              IN  /\ Len(b) > m
                  /\ SubSeq(b, 1, m) = SubSeq(a, Len(a) - m + 1, Len(a))
                  /\ \A k \in (m + 1)..Len(b) : b[k] \notin Range(a)

C3_Witness ==
    /\ SentencesRun /\ pc = "done" /\ Len(chunks) >= 3
    /\ \E n \in 1..(Len(chunks) - 1) : Len(chunks[n].sents) = 1
    /\ \E n \in 1..(Len(chunks) - 1) : Len(chunks[n].sents) >= 3

\* C20: chunk_by_words terminates for every integer chunk_size and overlap,
\* including overlap >= chunk_size: every chunk starts strictly after the
\* chunk before it and below len(words), so there are at most len(words)
\* iterations; the loop goes on only when the next start is past the start of
\* the chunk just produced, and it has halted only because the words are
\* exhausted or because the next start did not advance.
C20_Terminates ==
    method = "words" =>
        LET n == Len(chunks)
        IN  /\ \A k \in 1..(n - 1) : chunks[k + 1].start_word > chunks[k].start_word
            /\ \A k \in 1..n : 0 <= chunks[k].start_word /\ chunks[k].start_word < Len(words)
            /\ n <= Len(words)
            /\ (pc = "loop" /\ n > 0) => start > chunks[n].start_word
            /\ pc = "done" =>
                  \/ start >= Len(words)
                  \/ n > 0 /\ start <= chunks[n].start_word

C20_Witness ==
    /\ WordsDone /\ overlap > chunk_size /\ chunk_size > 0
    /\ Len(chunks) = 1 /\ start < 0 /\ Len(words) > chunk_size

\* The overlap values two chunkers may differ in.
Overlaps == ((-MaxOverlap)..MaxOverlap) \cup {DefaultOverlap}

\* C21: chunk_by_sentences ignores the overlap parameter: for the text and
\* chunk_size of the run that has returned, a chunker with any other overlap
\* value returns the same chunk sequence.
C21_OverlapIgnored ==
    (SentencesRun /\ pc = "done") =>
        \A lap \in Overlaps : chunk_by_sentences(Chunker(chunk_size, lap)) = chunks

C21_Witness ==
    /\ SentencesRun /\ pc = "done" /\ overlap = 0 /\ Len(chunks) >= 3
    /\ \E n \in 1..(Len(chunks) - 1) : Len(chunks[n].sents) >= 3
    /\ chunk_by_sentences(Chunker(chunk_size, MaxOverlap)) = chunks

\* C22 (as claimed): for chunk_size > 0 every chunk of chunk_by_sentences has
\* word_count <= chunk_size unless it consists of a single sentence that is by
\* itself longer than chunk_size; this includes the chunks seeded with the two
\* overlap sentences of the chunk before.
C22_SizeLimit ==
    (SentencesRun /\ chunk_size > 0) =>
        \A n \in 1..Len(chunks) :
            \/ chunks[n].word_count <= chunk_size
            \/ /\ chunks[n].sentence_count = 1
               /\ count_words(sentences[chunks[n].sents[1]]) > chunk_size

\* C23 (as claimed): for chunk_size > 0 and 0 <= overlap < chunk_size, at most
\* one chunk returned by chunk_by_words has end_word equal to the number of
\* words, and no chunk holds only words that the chunk before it already holds.
C23_StopsWhenExhausted ==
    (WordsDone /\ chunk_size > 0 /\ 0 <= overlap /\ overlap < chunk_size) =>
        /\ Cardinality({k \in 1..Len(chunks) : chunks[k].end_word = Len(words)}) <= 1
        /\ \A k \in 2..Len(chunks) : ~(Span(chunks[k]) \subseteq Span(chunks[k - 1]))
(***************************************************************************)
(* TextCleaner                                                             *)
(***************************************************************************)
UpperCase == <<"A", "B", "C", "D", "E", "F", "G", "H", "I", "J", "K", "L", "M",
               "N", "O", "P", "Q", "R", "S", "T", "U", "V", "W", "X", "Y", "Z">>
LowerCase == <<"a", "b", "c", "d", "e", "f", "g", "h", "i", "j", "k", "l", "m",
               "n", "o", "p", "q", "r", "s", "t", "u", "v", "w", "x", "y", "z">>
Digits == {"0", "1", "2", "3", "4", "5", "6", "7", "8", "9"}
\* The characters \s matches and str.strip()/str.split() treat as whitespace.
Whitespace == {" ", "\t", "\n"}
IsSpace(c) == c \in Whitespace

\* str.lower(), character by character.
UpperToLower ==
    [c \in Range(UpperCase) |-> LowerCase[CHOOSE i \in 1..Len(UpperCase) : UpperCase[i] = c]]
LowerChar(c) == IF c \in DOMAIN UpperToLower THEN UpperToLower[c] ELSE c
lower(text) == [i \in 1..Len(text) |-> LowerChar(text[i])]

\* str.strip(): leading and trailing whitespace removed.
strip(text) ==
    LET keep == {i \in 1..Len(text) : ~IsSpace(text[i])}
    IN  IF keep = {} THEN <<>>
        ELSE SubSeq(text, CHOOSE i \in keep : \A j \in keep : i <= j,
                          CHOOSE i \in keep : \A j \in keep : i >= j)

\* re.sub(r'[^a-z0-9\s]', '', text)
KeptChars == Range(LowerCase) \cup Digits \cup Whitespace
IsKept(c) == c \in KeptChars
RemoveSpecial(text) == SelectSeq(text, IsKept)

\* re.sub(r'\s+', ' ', text): every maximal run of whitespace becomes one space.
RECURSIVE CollapseSpaces(_)
CollapseSpaces(text) ==
    IF text = <<>> THEN <<>>
    ELSE IF IsSpace(Head(text))
         THEN IF Len(text) >= 2 /\ IsSpace(text[2])
              THEN CollapseSpaces(Tail(text))
              ELSE <<" ">> \o CollapseSpaces(Tail(text))
         ELSE <<Head(text)>> \o CollapseSpaces(Tail(text))

\* TextCleaner.clean_text (lines 12-20)
clean_text(text) == CollapseSpaces(RemoveSpecial(strip(lower(text))))

\* str.split(): the maximal runs of non-whitespace characters, in order.
RECURSIVE SplitWords(_, _)
SplitWords(text, cur) ==
    IF text = <<>> THEN (IF cur = <<>> THEN <<>> ELSE <<cur>>)
    ELSE IF IsSpace(Head(text))
         THEN (IF cur = <<>> THEN <<>> ELSE <<cur>>) \o SplitWords(Tail(text), <<>>)
         ELSE SplitWords(Tail(text), Append(cur, Head(text)))
split(text) == SplitWords(text, <<>>)

\* TextCleaner.tokenize (lines 22-25)
tokenize(text) == split(clean_text(text))

\* The strings the model cleans: every string of at most MaxText characters
\* over an upper-case and a lower-case letter, a digit, two kinds of
\* whitespace and a punctuation mark.
CleanerAlphabet == {"a", "B", "1", " ", "\t", "!"}
CleanerTexts == SeqsUpTo(CleanerAlphabet, MaxText)

CleanerInit == CleanerIdle /\ CosineIdle /\ ChunkerIdle /\ FaqIdle /\ RagIdle

\* A call of TextCleaner.clean_text (lines 12-20).
CleanText ==
    /\ \E text \in CleanerTexts :
          /\ cleaner_call' = [op |-> "clean_text", text |-> text]
          /\ cleaner_ret' = [text |-> clean_text(text), tokens |-> <<>>]
    /\ UNCHANGED nonCleanerVars

\* A call of TextCleaner.tokenize (lines 22-25).
Tokenize ==
    /\ \E text \in CleanerTexts :
          /\ cleaner_call' = [op |-> "tokenize", text |-> text]
          /\ cleaner_ret' = [text |-> <<>>, tokens |-> tokenize(text)]
    /\ UNCHANGED nonCleanerVars

CleanerNext == CleanText \/ Tokenize

SpecCleaner == CleanerInit /\ [][CleanerNext]_vars

\* C15 (as claimed): for every input string, clean_text returns a string made
\* only of lowercase letters, digits and single spaces, with no leading or
\* trailing whitespace and no run of two or more whitespace characters.
C15_Normalized ==
    cleaner_call.op = "clean_text" =>
        LET out == cleaner_ret.text
        IN  /\ \A i \in 1..Len(out) : out[i] \in Range(LowerCase) \cup Digits \cup {" "}
            /\ out # <<>> => ~IsSpace(out[1]) /\ ~IsSpace(out[Len(out)])
            /\ \A i \in 1..(Len(out) - 1) : ~(IsSpace(out[i]) /\ IsSpace(out[i + 1]))

(***************************************************************************)
(* FAQFinder                                                               *)
(***************************************************************************)
\* self.stop_words (lines 15-19), each word as its characters.
stop_words == {
    <<"a">>,
    <<"a", "n">>,
    <<"t", "h", "e">>,
    <<"i", "s">>,
    <<"a", "r", "e">>,
    <<"a", "m">>,
    <<"b", "e">>,
    <<"t", "o">>,
    <<"o", "f">>,
    <<"i", "n">>,
    <<"o", "n">>,
    <<"a", "t">>,
    <<"f", "o", "r">>,
    <<"w", "i", "t", "h">>,
    <<"d", "o">>,
    <<"d", "o", "e", "s">>,
    <<"i">>,
    <<"y", "o", "u">>,
    <<"w", "e">>,
    <<"t", "h", "e", "y">>,
    <<"t", "h", "e", "r", "e">>,
    <<"c", "a", "n">>,
    <<"w", "i", "l", "l">>,
    <<"i", "t">>,
    <<"w", "h", "a", "t">>,
    <<"h", "o", "w">>,
    <<"w", "h", "e", "n">>,
    <<"w", "h", "e", "r", "e">>
}

\* self.synonyms (lines 21-34): key |-> list of synonyms.
synonyms ==
    (<<"s", "i", "g", "n">> :>
          <<<<"r", "e", "g", "i", "s", "t", "e", "r">>,
            <<"s", "i", "g", "n", "u", "p">>,
            <<"j", "o", "i", "n">>,
            <<"e", "n", "r", "o", "l", "l">>>>)
    @@ (<<"r", "e", "g", "i", "s", "t", "e", "r">> :>
          <<<<"s", "i", "g", "n">>,
            <<"s", "i", "g", "n", "u", "p">>,
            <<"j", "o", "i", "n">>,
            <<"e", "n", "r", "o", "l", "l">>>>)
    @@ (<<"s", "i", "g", "n", "u", "p">> :>
          <<<<"s", "i", "g", "n">>,
            <<"r", "e", "g", "i", "s", "t", "e", "r">>,
            <<"j", "o", "i", "n">>,
            <<"e", "n", "r", "o", "l", "l">>>>)
    @@ (<<"p", "a", "y">> :>
          <<<<"f", "e", "e">>,
            <<"c", "o", "s", "t">>,
            <<"p", "r", "i", "c", "e">>,
            <<"m", "o", "n", "e", "y">>,
            <<"c", "h", "a", "r", "g", "e">>>>)
    @@ (<<"f", "e", "e">> :>
          <<<<"p", "a", "y">>,
            <<"c", "o", "s", "t">>,
            <<"p", "r", "i", "c", "e">>,
            <<"m", "o", "n", "e", "y">>,
            <<"c", "h", "a", "r", "g", "e">>>>)
    @@ (<<"c", "o", "s", "t">> :>
          <<<<"p", "a", "y">>,
            <<"f", "e", "e">>,
            <<"p", "r", "i", "c", "e">>,
            <<"m", "o", "n", "e", "y">>,
            <<"c", "h", "a", "r", "g", "e">>>>)
    @@ (<<"s", "t", "a", "r", "t">> :>
          <<<<"s", "c", "h", "e", "d", "u", "l", "e">>,
            <<"t", "i", "m", "e">>,
            <<"b", "e", "g", "i", "n">>,
            <<"w", "h", "e", "n">>>>)
    @@ (<<"t", "i", "m", "e">> :>
          <<<<"s", "c", "h", "e", "d", "u", "l", "e">>,
            <<"s", "t", "a", "r", "t">>,
            <<"w", "h", "e", "n">>>>)
    @@ (<<"w", "h", "e", "n">> :>
          <<<<"t", "i", "m", "e">>,
            <<"s", "c", "h", "e", "d", "u", "l", "e">>,
            <<"s", "t", "a", "r", "t">>>>)
    @@ (<<"w", "h", "e", "r", "e">> :>
          <<<<"v", "e", "n", "u", "e">>,
            <<"l", "o", "c", "a", "t", "i", "o", "n">>,
            <<"p", "l", "a", "c", "e">>>>)
    @@ (<<"v", "e", "n", "u", "e">> :>
          <<<<"w", "h", "e", "r", "e">>,
            <<"l", "o", "c", "a", "t", "i", "o", "n">>,
            <<"p", "l", "a", "c", "e">>>>)
    @@ (<<"l", "o", "c", "a", "t", "i", "o", "n">> :>
          <<<<"w", "h", "e", "r", "e">>,
            <<"v", "e", "n", "u", "e">>,
            <<"p", "l", "a", "c", "e">>>>)

\* "How do I register?"
Q_HowDoIRegister == <<"H", "o", "w", " ", "d", "o", " ", "I", " ", "r", "e", "g", "i", "s", "t", "e", "r", "?">>
\* "How can I sign up?"
Q_HowCanISignUp == <<"H", "o", "w", " ", "c", "a", "n", " ", "I", " ", "s", "i", "g", "n", " ", "u", "p", "?">>
\* "Where?"
Q_Where == <<"W", "h", "e", "r", "e", "?">>
\* "fee"
Q_Fee == <<"f", "e", "e">>
\* "?!"
Q_Punct == <<"?", "!">>
Questions == {Q_HowDoIRegister, Q_HowCanISignUp, Q_Where, Q_Fee, Q_Punct}
Answers == {"Click the register button.", "It is free."}

DefaultThreshold == Rat(15, 100)
Thresholds == {Zero, DefaultThreshold, Rat(1, 2), Rat(1, 1)}

\* FAQFinder.expand_with_synonyms (lines 56-62)
expand_nothing(ws) == ws
expand_with_synonyms(ws) ==
    ws \cup UNION {Range(synonyms[w]) : w \in ws \cap DOMAIN synonyms}

\* The token set of a cleaned text (lines 69-74 for the query, 80-84 for an
\* entry): stop words removed, synonyms added, and the unfiltered tokens when
\* that leaves nothing.
ProcessedWords(clean) ==
    LET raw == Range(split(clean)) \ stop_words
        expanded == expand_with_synonyms(raw)
    IN  IF expanded = {} THEN Range(split(clean)) ELSE expanded

\* score = len(intersection) / len(union) if union else 0.0 (lines 86-89)
ScoreOverQuery(user_words, faq_words) ==
    IF user_words # {}
    THEN Rat(Cardinality(user_words \cap faq_words), Cardinality(user_words))
    ELSE Zero
JaccardScore(user_words, faq_words) ==
    LET intersection == user_words \cap faq_words
        union == user_words \cup faq_words
    IN  IF union # {} THEN Rat(Cardinality(intersection), Cardinality(union)) ELSE Zero

\* if score > best_score (line 91)
ReplacesBest(score, best_score) == RatLess(best_score, score)

\* The for loop of lines 79-93 from entry i on; best_match is the position of
\* the entry held (0 for None).  Returns <<best_match, best_score>>.
RECURSIVE ScanFaqs(_, _, _, _, _)
ScanFaqs(corpus, i, user_words, best_match, best_score) ==
    IF i > Len(corpus) THEN <<best_match, best_score>>
    ELSE LET score == JaccardScore(user_words, ProcessedWords(corpus[i].question_clean))
         IN  IF ReplacesBest(score, best_score)
             THEN ScanFaqs(corpus, i + 1, user_words, i, score)
             ELSE ScanFaqs(corpus, i + 1, user_words, best_match, best_score)

\* The no-confident-match result (line 96).
NoMatchResultZero(best_score) == Returned("I couldn't find a good answer found.", Zero, None)
NoMatchResult(best_score) == Returned("I couldn't find a good answer found.", best_score, None)

\* The scan of find_answer (lines 69-93): <<best_match, best_score>>.
BestMatch(corpus, user_question) ==
    ScanFaqs(corpus, 1, ProcessedWords(clean_text(user_question)), 0, Zero)

\* The end of find_answer (lines 95-102).
Decide(corpus, best, threshold) ==
    LET best_match == best[1]
        best_score == best[2]
    IN  IF RatLess(best_score, threshold) THEN NoMatchResult(best_score)
        ELSE IF best_match = 0 THEN Raised
        ELSE Returned(corpus[best_match].answer, best_score,
                      Some(corpus[best_match].question))

\* FAQFinder.find_answer (lines 64-102)
find_answer(corpus, user_question, threshold) ==
    IF corpus = <<>> THEN Returned("No FAQs loaded.", Zero, None)
    ELSE Decide(corpus, BestMatch(corpus, user_question), threshold)

FaqInit == FaqIdle /\ ChunkerIdle /\ RagIdle /\ UtilIdle

\* FAQFinder.add_faq (lines 36-42).  A result computed on the old corpus is
\* no longer kept by the model.
AddFaq ==
    /\ Len(faqs) < MaxFaqs
    /\ \E question \in Questions, answer \in Answers :
          faqs' = Append(faqs, [question |-> question, answer |-> answer,
                                question_clean |-> clean_text(question)])
    /\ faq_call' = NoCall
    /\ faq_result' = NoResult
    /\ UNCHANGED nonFaqVars

\* A call of FAQFinder.find_answer (lines 64-102).
FindAnswer ==
    /\ \E user_question \in Questions, threshold \in Thresholds :
          /\ faq_call' = [called |-> TRUE, user_question |-> user_question,
                          threshold |-> threshold]
          /\ faq_result' = find_answer(faqs, user_question, threshold)
    /\ UNCHANGED <<faqs, nonFaqVars>>

FaqNext == AddFaq \/ FindAnswer

SpecFaq == FaqInit /\ [][FaqNext]_vars

(***************************************************************************)
(* Properties of FAQFinder                                                 *)
(***************************************************************************)
\* The score line 89 gives entry i for the query of the last call.
EntryScores ==
    LET user_words == ProcessedWords(clean_text(faq_call.user_question))
    IN  [i \in 1..Len(faqs) |->
            JaccardScore(user_words, ProcessedWords(clean_text(faqs[i].question)))]
MaxOf(scores) == CHOOSE s \in Range(scores) : \A t \in Range(scores) : ~RatLess(s, t)
EarliestOf(scores, s) == CHOOSE i \in 1..Len(scores) :
                            scores[i] = s /\ \A j \in 1..(i - 1) : scores[j] # s
MaxScore == MaxOf(EntryScores)
EarliestMax == EarliestOf(EntryScores, MaxScore)
Called == faq_call.called /\ faqs # <<>>

\* C4 (as claimed): for a non-empty corpus and a threshold in [0, 1], when the
\* best score is not below the threshold, find_answer returns, without
\* raising, the answer and question of the earliest entry whose score is the
\* maximum over the corpus.
C4_EarliestBest ==
    Called =>
        LET scores == EntryScores
            best == MaxOf(scores)
            first == EarliestOf(scores, best)
        IN  ~RatLess(best, faq_call.threshold) =>
              /\ faq_result.kind = "return"
              /\ faq_result.answer = faqs[first].answer
              /\ faq_result.matched_question = Some(faqs[first].question)

QueryTokens == Range(split(clean_text(faq_call.user_question))) \ stop_words

\* C16 (as claimed): synonym expansion is bidirectional: for every token a of
\* a query and every token b, if expand_with_synonyms({a}) contains b then
\* expand_with_synonyms({b}) contains a.
C16_Bidirectional ==
    Called =>
        \A a \in QueryTokens :
            \A b \in expand_with_synonyms({a}) : a \in expand_with_synonyms({b})

\* The score find_answer computes for query A against a corpus holding only an
\* entry with question B: best_score after the scan of that corpus.
EntryFor(question, answer) ==
    [question |-> question, answer |-> answer, question_clean |-> clean_text(question)]
ScoreAgainst(A, B) == BestMatch(<<EntryFor(B, "It is free.")>>, A)[2]

\* C17: the score is symmetric and bounded: the score for query A against an
\* entry with question B equals the score for query B against an entry with
\* question A, equals |QA \cap QB| / |QA \cup QB| for the two processed token
\* sets, lies in [0, 1], and is 0 when the union is empty.
C17_Symmetric ==
    Called =>
        \A i \in 1..Len(faqs) :
            LET A == faq_call.user_question
                B == faqs[i].question
                QA == ProcessedWords(clean_text(A))
                QB == ProcessedWords(faqs[i].question_clean)
                score == ScoreAgainst(A, B)
            IN  /\ score = ScoreAgainst(B, A)
                /\ score[1] * Cardinality(QA \cup QB) = Cardinality(QA \cap QB) * score[2]
                /\ score[2] > 0 /\ 0 <= score[1] /\ score[1] <= score[2]
                /\ QA \cup QB = {} => score = Zero

C17_Witness ==
    /\ Called
    /\ \E i \in 1..Len(faqs) :
          LET score == ScoreAgainst(faq_call.user_question, faqs[i].question)
          IN  /\ faqs[i].question # faq_call.user_question
              /\ RatLess(Zero, score) /\ RatLess(score, Rat(1, 1))
    /\ \E i \in 1..Len(faqs) :
          ProcessedWords(faqs[i].question_clean) = {}

\* The corpus and the call of the register / sign-up scenario.
RegisterScenario ==
    /\ faqs = <<EntryFor(Q_HowDoIRegister, "Click the register button.")>>
    /\ faq_call = [called |-> TRUE, user_question |-> Q_HowCanISignUp,
                   threshold |-> DefaultThreshold]

\* C18: with the single entry "How do I register?" / "Click the register
\* button.", find_answer("How can I sign up?", threshold=0.15) returns that
\* answer with matched_question "How do I register?" and a confidence of at
\* least 0.15; the two sides meet only through synonym expansion: after
\* normalization and stop-word removal alone they share no token.
C18_RegisterScenario ==
    RegisterScenario =>
        /\ faq_result.kind = "return"
        /\ faq_result.answer = "Click the register button."
        /\ faq_result.matched_question = Some(Q_HowDoIRegister)
        /\ ~RatLess(faq_result.confidence, Rat(15, 100))
        /\ QueryTokens \cap (Range(split(faqs[1].question_clean)) \ stop_words) = {}
        /\ <<"r", "e", "g", "i", "s", "t", "e", "r">> \in
              ProcessedWords(clean_text(faq_call.user_question))
                 \cap ProcessedWords(faqs[1].question_clean)

C18_Witness == RegisterScenario /\ faq_result.confidence = Rat(5, 6)
(***************************************************************************)
(* SemanticSimilarity                                                      *)
(***************************************************************************)
\* The vectors the model compares: every integer vector of at most MaxDim
\* components, each -1, 0 or 1.
Components == {-1, 0, 1}
Vectors == SeqsUpTo(Components, MaxDim)

Sign(x) == IF x > 0 THEN 1 ELSE IF x < 0 THEN -1 ELSE 0

\* sum(a * b for a, b in zip(vec1, vec2)) (line 19); zip stops at the shorter.
DotProduct(vec1, vec2) ==
    SumSeq([i \in 1..Min(Len(vec1), Len(vec2)) |-> vec1[i] * vec2[i]])
\* sum(a * a for a in vec1) (lines 20-21); the magnitude is its square root.
SquaredMagnitude(vec) == SumSeq([i \in 1..Len(vec) |-> vec[i] * vec[i]])

\* magnitude1 == 0 or magnitude2 == 0 (line 23): a square root is 0 exactly
\* when its argument is.
ZeroMagnitudeBoth(sq1, sq2) == sq1 = 0 /\ sq2 = 0
ZeroMagnitude(sq1, sq2) == sq1 = 0 \/ sq2 = 0

\* dot_product / (magnitude1 * magnitude2) (line 26)
Quotient(dot_product, sq1, sq2) ==
    IF sq1 * sq2 = 0 THEN CosRaised("ZeroDivisionError")
    ELSE CosReturned(Sign(dot_product), Rat(dot_product * dot_product, sq1 * sq2))

\* SemanticSimilarity.cosine_similarity (lines 12-26)
cosine_similarity(vec1, vec2) ==
    IF Len(vec1) # Len(vec2) THEN CosRaised("ValueError")
    ELSE LET dot_product == DotProduct(vec1, vec2)
             sq1 == SquaredMagnitude(vec1)
             sq2 == SquaredMagnitude(vec2)
         IN  IF ZeroMagnitude(sq1, sq2) THEN CosReturned(0, Zero)
             ELSE Quotient(dot_product, sq1, sq2)

CosineInit == CosineIdle /\ CleanerIdle /\ ChunkerIdle /\ FaqIdle /\ RagIdle

\* A call of cosine_similarity.
CosineSimilarity ==
    /\ \E vec1 \in Vectors, vec2 \in Vectors :
          /\ cos_call' = [called |-> TRUE, vec1 |-> vec1, vec2 |-> vec2]
          /\ cos_ret' = cosine_similarity(vec1, vec2)
    /\ UNCHANGED nonCosineVars

CosineNext == CosineSimilarity

SpecCosine == CosineInit /\ [][CosineNext]_vars

AllZero(vec) == \A i \in 1..Len(vec) : vec[i] = 0
Orthogonal(vec1, vec2) ==
    /\ Len(vec1) = Len(vec2)
    /\ \A i \in 1..Len(vec1) : vec1[i] = 0 \/ vec2[i] = 0

\* C19: cosine_similarity raises the dimension-mismatch error exactly when the
\* two vectors differ in length (also when one of them is all zeros or
\* empty); for equal-length vectors of which at least one has zero magnitude
\* it returns 0.0 without raising, and for equal-length vectors whose dot
\* product is zero it returns 0.0.
C19_Cosine ==
    cos_call.called =>
        LET v1 == cos_call.vec1
            v2 == cos_call.vec2
        IN  /\ (cos_ret.kind = "ValueError") <=> (Len(v1) # Len(v2))
            /\ cos_ret.kind \in {"ValueError", "return"}
            /\ (Len(v1) = Len(v2) /\ (AllZero(v1) \/ AllZero(v2))) =>
                  cos_ret = CosReturned(0, Zero)
            /\ Orthogonal(v1, v2) => cos_ret = CosReturned(0, Zero)
            /\ (Len(v1) = Len(v2) /\ SumSeq([i \in 1..Len(v1) |-> v1[i] * v2[i]]) = 0) =>
                  cos_ret = CosReturned(0, Zero)

C19_Witness ==
    /\ cos_call.called /\ Len(cos_call.vec1) = 2 /\ Len(cos_call.vec2) = 2
    /\ AllZero(cos_call.vec1) /\ ~AllZero(cos_call.vec2)
    /\ cos_ret = CosReturned(0, Zero)
(***************************************************************************)
(* GeminiWrapper                                                           *)
(***************************************************************************)
\* One piece of a prompt.  kind says what the piece is; n is a source number,
\* a a label (a literal's name, a role prefix, a source name), b free text
\* (a query, a message, a persona), text a passage text.
Seg(kind, n, a, b, text) == [kind |-> kind, n |-> n, a |-> a, b |-> b, text |-> text]
Lit(name) == Seg("literal", 0, name, "", NoText)

\* The persona RAGAgent.__init__ sets (rag_agent.py lines 40-46).
AgentPersona == "You are a helpful AI assistant with access to a knowledge base. ..."

\* What self.client.models.generate_content does (lines 71-80): it returns a
\* response or raises.
LlmException == "timeout"
LlmOutcomes == {[kind |-> "text", text |-> "r1"], [kind |-> "raise", text |-> LlmException]}

\* f"Error calling Gemini API: {str(e)}" (line 103)
error_msg(e) == IF e = LlmException THEN "Error calling Gemini API: timeout"
                ELSE "Error calling Gemini API: ?"
ErrorTexts == {error_msg(LlmException)}

\* full_prompt (line 67)
full_prompt(prompt) ==
    IF persona.some
    THEN <<Seg("system", 0, "SYSTEM:", persona.val, NoText), Lit("USER:")>> \o prompt
    ELSE prompt

ModelName == "gemini-2.5-flash"
\* temperature=0.3 (rag_agent.py line 22)
Temperature == Rat(3, 10)

\* The record generate appends to self.history (lines 94-99).
HistoryRecord(prompt, text) ==
    [prompt |-> prompt, response |-> text, temperature |-> Temperature, model |-> ModelName]

\* What generate returns (lines 101 and 102-106): the text, or the error message.
generate_reply(outcome) ==
    IF outcome.kind = "raise" THEN error_msg(outcome.text) ELSE outcome.text

\* self.history after generate: the record is appended after the service call
\* returned (lines 94-99); the except branch (lines 102-106) appends nothing.
generate_history_always(h, prompt, outcome) ==
    Append(h, HistoryRecord(prompt, generate_reply(outcome)))
generate_history(h, prompt, outcome) ==
    IF outcome.kind = "raise" THEN h ELSE Append(h, HistoryRecord(prompt, outcome.text))

\* One call of a collaborator, as the operation in progress made it.
\* For the store: the query, n_results and the ranked chunks it returned; for
\* the completion service: the contents it was sent.
LogEntry(svc, query, top_k, prompt, outcome, results) ==
    [svc |-> svc, query |-> query, top_k |-> top_k, prompt |-> prompt,
     outcome |-> outcome, results |-> results]
LlmCall(prompt, outcome) ==
    LogEntry("llm", "", 0, full_prompt(prompt),
             IF outcome.kind = "raise" THEN "raise" ELSE "ok", <<>>)

\* self._chat_transcript[-10:] (line 120)
TranscriptWindow == 10
RecentTurnsOldest(transcript) == PySlice(transcript, 0, TranscriptWindow)
RecentTurns(transcript) == PySlice(transcript, -TranscriptWindow, Len(transcript))

\* The prompt chat builds (lines 117-124) from the transcript that already
\* holds the new user message.
chat_prompt(transcript) ==
    LET window == RecentTurns(transcript)
    IN  (IF persona.some THEN <<Seg("system", 0, "SYSTEM:", persona.val, NoText)>> ELSE <<>>)
        \o [k \in 1..Len(window) |->
              Seg("turn", 0, IF window[k].role = "user" THEN "USER" ELSE "ASSISTANT",
                  window[k].text, NoText)]
        \o <<Lit("ASSISTANT:")>>

Messages == {"m1", "m2"}
Prompts == {"What is Python in one sentence?"}

\* GeminiWrapper.generate called directly (lines 58-106).
Generate ==
    /\ Len(history) < MaxHistory
    /\ \E prompt \in Prompts, outcome \in LlmOutcomes :
          /\ history' = generate_history(history, <<Seg("query", 0, "", prompt, NoText)>>, outcome)
          /\ rag_call' = [op |-> "generate", arg |-> prompt, top_k |-> 0]
          /\ rag_ret' = ReturnedText(generate_reply(outcome))
          /\ calls_log' = <<LlmCall(<<Seg("query", 0, "", prompt, NoText)>>, outcome)>>
    /\ UNCHANGED <<persona, has_transcript, chat_transcript, knowledge_base, collection>>
    /\ UNCHANGED nonRagVars

\* GeminiWrapper.chat (lines 108-128).
Chat ==
    /\ Len(chat_transcript) + 2 <= MaxTurns
    /\ \E message \in Messages, outcome \in LlmOutcomes :
          LET with_user == Append(chat_transcript, [role |-> "user", text |-> message])
              prompt == chat_prompt(with_user)
              reply == generate_reply(outcome)
          IN  /\ has_transcript' = TRUE
              /\ chat_transcript' = Append(with_user, [role |-> "assistant", text |-> reply])
              /\ history' = generate_history(history, prompt, outcome)
              /\ rag_call' = [op |-> "chat", arg |-> message, top_k |-> 0]
              /\ rag_ret' = ReturnedText(reply)
              /\ calls_log' = <<LlmCall(prompt, outcome)>>
    /\ UNCHANGED <<persona, knowledge_base, collection>>
    /\ UNCHANGED nonRagVars

\* GeminiWrapper.clear_history (lines 130-138).
ClearHistory ==
    /\ history' = <<>>
    /\ chat_transcript' = <<>>
    /\ rag_call' = [op |-> "clear_history", arg |-> "", top_k |-> 0]
    /\ rag_ret' = ReturnedText("")
    /\ calls_log' = <<>>
    /\ UNCHANGED <<persona, has_transcript, knowledge_base, collection>>
    /\ UNCHANGED nonRagVars

(***************************************************************************)
(* KnowledgeBase                                                           *)
(***************************************************************************)
\* A passage text: the first `len` characters of document `doc`, followed by
\* `marker` ("" or "...").
PassageText(doc, len) == [doc |-> doc, len |-> len, marker |-> ""]
TextLen(text) == text.len + (IF text.marker = "..." THEN 3 ELSE 0)

\* The chunks add_document can store (lines 60-77): id, text and metadata; a
\* metadata bag has a 'source' key or not.
Passages ==
    {[id |-> "c1", text |-> PassageText("guide", 300),
      metadata |-> [source |-> SomeStr("GDG Workshop Guide")]],
     [id |-> "c2", text |-> PassageText("notes", 301),
      metadata |-> [source |-> NoneStr]]}

\* The sequences of n distinct members of S.
Rankings(S, n) == {r \in [1..n -> S] : \A i, j \in 1..n : i # j => r[i] # r[j]}

\* What self.collection.query does (lines 92-95): it raises, or returns at
\* most n_results stored chunks in ranked order; the chunk at rank r comes
\* with distance r/4.
StoreException == "store unreachable"
StoreOutcomes(top_k) ==
    {[kind |-> "raise", ranked |-> <<>>]}
    \cup {[kind |-> "ok", ranked |-> r] :
            r \in Rankings(collection, Min(top_k, Cardinality(collection)))}
DistanceAt(r) == Rat(r, 4)
\* similarity = (1 - distance) (line 102)
Similarity(distance) == Rat(distance[2] - distance[1], distance[2])

\* formatted_results of KnowledgeBase.query (lines 97-112)
formatted_results(ranked) ==
    [i \in 1..Len(ranked) |->
        [id |-> ranked[i].id, text |-> ranked[i].text, metadata |-> ranked[i].metadata,
         distance |-> DistanceAt(i), similarity |-> Similarity(DistanceAt(i))]]

\* KnowledgeBase.add_document (lines 40-79): the document's chunk is stored.
AddDocument ==
    /\ \E p \in Passages \ collection : collection' = collection \cup {p}
    /\ UNCHANGED <<history, persona, has_transcript, chat_transcript, knowledge_base>>
    /\ rag_call' = [op |-> "add_document", arg |-> "", top_k |-> 0]
    /\ rag_ret' = ReturnedText("")
    /\ calls_log' = <<>>
    /\ UNCHANGED nonRagVars

\* KnowledgeBase.clear (lines 125-136)
KbClear ==
    /\ collection # {}
    /\ collection' = {}
    /\ UNCHANGED <<history, persona, has_transcript, chat_transcript, knowledge_base>>
    /\ rag_call' = [op |-> "clear", arg |-> "", top_k |-> 0]
    /\ rag_ret' = ReturnedText("")
    /\ calls_log' = <<>>
    /\ UNCHANGED nonRagVars

(***************************************************************************)
(* RAGAgent                                                                *)
(***************************************************************************)
DefaultTopK == 3
TopKs == {1, DefaultTopK}
Queries == {"Will I get a certificate?"}

\* RAGAgent.set_knowledge_base (lines 51-60)
SetKnowledgeBase ==
    /\ ~knowledge_base
    /\ knowledge_base' = TRUE
    /\ UNCHANGED <<history, persona, has_transcript, chat_transcript, collection>>
    /\ rag_call' = [op |-> "set_knowledge_base", arg |-> "", top_k |-> 0]
    /\ rag_ret' = ReturnedText("")
    /\ calls_log' = <<>>
    /\ UNCHANGED nonRagVars

\* RAGAgent.retrieve_context (lines 62-78) for one outcome of the store:
\* whether it raised, the chunks it returned, and the store calls it made.
retrieve_context(query, top_k, store) ==
    IF ~knowledge_base THEN [raised |-> FALSE, chunks |-> <<>>, log |-> <<>>]
    ELSE IF store.kind = "raise"
         THEN [raised |-> TRUE, chunks |-> <<>>,
               log |-> <<LogEntry("store", query, top_k, <<>>, "raise", <<>>)>>]
         ELSE [raised |-> FALSE, chunks |-> formatted_results(store.ranked),
               log |-> <<LogEntry("store", query, top_k, <<>>, "ok", store.ranked)>>]

\* chunk['metadata'].get('source', 'Unknown Source') (line 102)
SourceNameRaw(metadata) == metadata.source.val
SourceName(metadata) == IF metadata.source.some THEN metadata.source.val ELSE "Unknown Source"

\* The prompt for an empty passage list (lines 90-96).
DeclinePrompt(query) ==
    <<Lit("The user asked:"), Seg("query", 0, "", query, NoText),
      Lit("You don't have any relevant information ... respond honestly ...")>>

\* The source blocks (lines 101-105): for the i-th chunk the label
\* "[Source i: <source>]" and then the chunk's text.
SourceBlocks(context_chunks) ==
    Concat([i \in 1..Len(context_chunks) |->
              <<Seg("source_label", i, SourceName(context_chunks[i].metadata), "", NoText),
                Seg("chunk_text", i, "", "", context_chunks[i].text)>>])

\* The prompt for a non-empty passage list (lines 98-125).
ContextPrompt(query, context_chunks) ==
    <<Lit("=== KNOWLEDGE BASE CONTEXT ==="),
      Lit("Here are relevant excerpts from the knowledge base:")>>
    \o SourceBlocks(context_chunks)
    \o <<Lit("=== USER QUESTION ==="), Seg("query", 0, "", query, NoText),
         Lit("=== INSTRUCTIONS ==="),
         Lit("Please answer ... using ONLY the information provided in the context above."),
         Lit("1. Cite which source(s) you used"),
         Lit("2. If the context contains the answer, provide it clearly and concisely"),
         Lit("3. If the context doesn't fully answer the question, say so"),
         Lit("4. DO NOT make up information or use knowledge outside the provided context"),
         Lit("5. Be helpful and conversational while staying factual"),
         Lit("Your answer:")>>

\* RAGAgent.build_prompt_with_context (lines 80-125)
build_prompt_always_context(query, context_chunks) == ContextPrompt(query, context_chunks)
build_prompt_with_context(query, context_chunks) ==
    IF context_chunks = <<>> THEN DeclinePrompt(query)
    ELSE ContextPrompt(query, context_chunks)

\* chunk['text'][:300] + '...' if len(chunk['text']) > 300 else chunk['text'] (line 164)
PreviewLen == 300
PreviewNoMarker(text) == [doc |-> text.doc, len |-> Min(text.len, PreviewLen), marker |-> ""]
Preview(text) ==
    IF TextLen(text) > PreviewLen
    THEN [doc |-> text.doc, len |-> Min(text.len, PreviewLen), marker |-> "..."]
    ELSE text

\* The result dict of answer (lines 159-172).
AnswerResult(query, answer, context_chunks) ==
    [query |-> query, answer |-> answer,
     sources |-> [i \in 1..Len(context_chunks) |->
                    [text |-> Preview(context_chunks[i].text),
                     metadata |-> context_chunks[i].metadata,
                     similarity |-> context_chunks[i].similarity]],
     num_sources |-> Len(context_chunks),
     has_sources |-> Len(context_chunks) > 0]

\* RAGAgent.answer (lines 127-174) for one outcome of the store and one of the
\* completion service.
Answer ==
    /\ Len(history) < MaxHistory
    /\ \E query \in Queries, top_k \in TopKs :
       \E store \in StoreOutcomes(top_k), outcome \in LlmOutcomes :
          LET retrieved == retrieve_context(query, top_k, store)
              prompt == build_prompt_with_context(query, retrieved.chunks)
          IN  /\ rag_call' = [op |-> "answer", arg |-> query, top_k |-> top_k]
              /\ IF retrieved.raised
                 THEN /\ rag_ret' = RaisedError(StoreException)
                      /\ calls_log' = retrieved.log
                      /\ history' = history
                 ELSE /\ rag_ret' = ReturnedResult(
                              AnswerResult(query, generate_reply(outcome), retrieved.chunks))
                      /\ calls_log' = retrieved.log \o <<LlmCall(prompt, outcome)>>
                      /\ history' = generate_history(history, prompt, outcome)
    /\ UNCHANGED <<persona, has_transcript, chat_transcript, knowledge_base, collection>>
    /\ UNCHANGED nonRagVars

\* After RAGAgent.__init__ (lines 18-49): the persona is set, the knowledge
\* base is the constructor's argument (None or a new KnowledgeBase).
Init ==
    /\ RagIdleInit
    /\ persona = SomeStr(AgentPersona)
    /\ knowledge_base \in BOOLEAN
    /\ ChunkerIdle /\ FaqIdle /\ UtilIdle

Next == Answer \/ Generate \/ ClearHistory \/ SetKnowledgeBase \/ AddDocument \/ KbClear

Spec == Init /\ [][Next]_vars

\* A GeminiWrapper used conversationally (after GeminiWrapper.__init__, lines
\* 13-47, with or without set_persona).
ChatInit ==
    /\ RagIdleInit
    /\ persona \in {NoneStr, SomeStr(AgentPersona)}
    /\ knowledge_base = FALSE
    /\ ChunkerIdle /\ FaqIdle /\ UtilIdle

ChatNext == Chat \/ Generate \/ ClearHistory

SpecChat == ChatInit /\ [][ChatNext]_vars
(***************************************************************************)
(* Properties of RAGAgent and GeminiWrapper                                *)
(***************************************************************************)
StoreCalls == SelectSeq(calls_log, LAMBDA c : c.svc = "store")
LlmCalls == SelectSeq(calls_log, LAMBDA c : c.svc = "llm")
StoreRaised == \E i \in 1..Len(calls_log) :
                  calls_log[i].svc = "store" /\ calls_log[i].outcome = "raise"
LlmFailed == \E i \in 1..Len(calls_log) :
                calls_log[i].svc = "llm" /\ calls_log[i].outcome = "raise"
LastWasAnswer == rag_call.op = "answer"

\* C6 (as claimed): when the vector store's query raises, retrieve_context
\* yields an empty passage list and answer() returns an AnswerResult with
\* has_sources false instead of propagating the exception.
C6_StoreFailureAbsorbed ==
    (LastWasAnswer /\ StoreRaised) =>
        /\ rag_ret.kind = "return"
        /\ rag_ret.result.sources = <<>>
        /\ rag_ret.result.has_sources = FALSE

\* C7 (as claimed): a failed completion call leaves no trace in shared state:
\* no history record holds the failure's text, no assistant turn of the
\* transcript holds it, and no prompt sent to the completion service holds it.
C7_NoPoison ==
    /\ \A i \in 1..Len(history) : history[i].response \notin ErrorTexts
    /\ \A i \in 1..Len(chat_transcript) :
          ~(chat_transcript[i].role = "assistant" /\ chat_transcript[i].text \in ErrorTexts)
    /\ \A i \in 1..Len(calls_log) : \A k \in 1..Len(calls_log[i].prompt) :
          calls_log[i].prompt[k].b \notin ErrorTexts

\* C8: a failure of the completion service does not escape answer(): the call
\* returns an AnswerResult whose answer is the diagnostic message and whose
\* sources, num_sources and has_sources are those of the passages retrieved,
\* and it leaves the agent, its wrapper and the knowledge base as they were,
\* so that the next answer() call runs as if the failure had not happened.
C8_Contained ==
    (Answer /\ LlmFailed') =>
        LET result == rag_ret'.result
            got == IF StoreCalls' = <<>> THEN <<>> ELSE StoreCalls'[1].results
        IN  /\ rag_ret'.kind = "return"
            /\ result.query = rag_call'.arg
            /\ result.answer \in ErrorTexts
            /\ Len(result.sources) = Len(got)
            /\ \A i \in 1..Len(got) :
                  /\ result.sources[i].metadata = got[i].metadata
                  /\ result.sources[i].text.doc = got[i].text.doc
            /\ result.num_sources = Len(got)
            /\ result.has_sources = (Len(got) > 0)
            /\ UNCHANGED <<history, persona, has_transcript, chat_transcript,
                           knowledge_base, collection>>
C8_FailureContained == [][C8_Contained]_vars

C8_Witness ==
    /\ LastWasAnswer /\ LlmFailed /\ rag_ret.kind = "return"
    /\ rag_ret.result.num_sources = 2 /\ Len(history) >= 1

\* C9: a chat call appends exactly one user turn and then one assistant turn
\* to the transcript and leaves the earlier turns as they were, and the prompt
\* it sends holds exactly the last 10 turns of the transcript with the new
\* user message (all of them when there are fewer), in transcript order.
C9_Chat ==
    Chat =>
        LET old == chat_transcript
            new == chat_transcript'
            with_user == Append(old, [role |-> "user", text |-> rag_call'.arg])
            turns == SelectSeq(LlmCalls'[1].prompt, LAMBDA g : g.kind = "turn")
            n == Len(turns)
        IN  /\ Len(new) = Len(old) + 2
            /\ SubSeq(new, 1, Len(old)) = old
            /\ new[Len(old) + 1] = [role |-> "user", text |-> rag_call'.arg]
            /\ new[Len(old) + 2] = [role |-> "assistant", text |-> rag_ret'.text]
            /\ n = Min(TranscriptWindow, Len(with_user))
            /\ \A k \in 1..n :
                  LET turn == with_user[Len(with_user) - n + k]
                  IN  /\ turns[k].b = turn.text
                      /\ turns[k].a = (IF turn.role = "user" THEN "USER" ELSE "ASSISTANT")
C9_TranscriptWindow == [][C9_Chat]_vars

C9_Witness == rag_call.op = "chat" /\ Len(chat_transcript) >= TranscriptWindow + 3

\* C10 (as claimed): every answer() call queries the vector store at most once
\* (exactly once when a knowledge base is connected), then calls the
\* completion service exactly once, with the prompt built from exactly the
\* passages the store returned.
C10_StagesInOrder ==
    LastWasAnswer =>
        /\ Len(StoreCalls) <= 1
        /\ knowledge_base => Len(StoreCalls) = 1
        /\ Len(LlmCalls) = 1
        /\ calls_log = StoreCalls \o LlmCalls
        /\ LlmCalls # <<>> =>
              LlmCalls[1].prompt =
                 full_prompt(build_prompt_with_context(rag_call.arg,
                    IF StoreCalls = <<>> THEN <<>>
                    ELSE formatted_results(StoreCalls[1].results)))

\* The passages the store handed to the answer() call just made, and the
\* prompt that call sent to the completion service.
Retrieved == IF StoreCalls = <<>> THEN <<>> ELSE StoreCalls[1].results
SentPrompt == IF LlmCalls = <<>> THEN <<>> ELSE LlmCalls[1].prompt
PositionsOf(prompt, kind) == {p \in 1..Len(prompt) : prompt[p].kind = kind}
LiteralAt(prompt, name) == {p \in 1..Len(prompt) : prompt[p] = Lit(name)}
DeclineText == "You don't have any relevant information ... respond honestly ..."

\* C11: when retrieval yields zero passages (no knowledge base connected, or
\* the store returns no matches), answer() does not fail, the prompt it sends
\* is the decline prompt (it holds the user's query and the instruction to say
\* honestly that no relevant information is available, and no source block),
\* and the AnswerResult has an empty sources list, num_sources 0 and
\* has_sources false.
C11_ZeroPassages ==
    (LastWasAnswer /\ ~StoreRaised /\ Retrieved = <<>>) =>
        /\ ~knowledge_base => StoreCalls = <<>>
        /\ rag_ret.kind = "return"
        /\ Len(LlmCalls) = 1
        /\ \E p \in PositionsOf(SentPrompt, "query") : SentPrompt[p].b = rag_call.arg
        /\ LiteralAt(SentPrompt, DeclineText) # {}
        /\ PositionsOf(SentPrompt, "source_label") = {}
        /\ PositionsOf(SentPrompt, "chunk_text") = {}
        /\ LiteralAt(SentPrompt, "=== KNOWLEDGE BASE CONTEXT ===") = {}
        /\ rag_ret.result.sources = <<>>
        /\ rag_ret.result.num_sources = 0
        /\ rag_ret.result.has_sources = FALSE

C11_Witness ==
    /\ LastWasAnswer /\ knowledge_base /\ collection = {}
    /\ Len(StoreCalls) = 1 /\ ~StoreRaised /\ Retrieved = <<>>
    /\ rag_ret.kind = "return" /\ ~rag_ret.result.has_sources

\* C12: for n >= 1 retrieved passages the prompt holds exactly n source
\* blocks, numbered 1..n in retrieval order; the i-th label carries the
\* passage's metadata 'source' value, or 'Unknown Source' when the key is
\* absent, and is immediately followed by the passage's complete text; all
\* source blocks come before the user question, which comes before the
\* citation instructions.
C12_SourceBlocks ==
    (LastWasAnswer /\ ~StoreRaised /\ Retrieved # <<>>) =>
        LET n == Len(Retrieved)
            labels == PositionsOf(SentPrompt, "source_label")
            texts == PositionsOf(SentPrompt, "chunk_text")
            question == LiteralAt(SentPrompt, "=== USER QUESTION ===")
            instructions == LiteralAt(SentPrompt, "=== INSTRUCTIONS ===")
            cite == LiteralAt(SentPrompt, "1. Cite which source(s) you used")
        IN  /\ Cardinality(labels) = n /\ Cardinality(texts) = n
            /\ \A p \in labels : p + 1 \in texts /\ SentPrompt[p + 1].n = SentPrompt[p].n
            /\ \A p, q \in labels : p < q => SentPrompt[p].n < SentPrompt[q].n
            /\ {SentPrompt[p].n : p \in labels} = 1..n
            /\ \A p \in labels :
                  LET chunk == Retrieved[SentPrompt[p].n]
                  IN  /\ SentPrompt[p].a = (IF chunk.metadata.source.some
                                            THEN chunk.metadata.source.val
                                            ELSE "Unknown Source")
                      /\ SentPrompt[p + 1].text = chunk.text
                      /\ SentPrompt[p + 1].text.marker = ""
            /\ Cardinality(question) = 1 /\ Cardinality(instructions) = 1
            /\ Cardinality(cite) = 1
            /\ \A q \in question :
                  /\ \A p \in texts : p < q
                  /\ SentPrompt[q + 1].kind = "query" /\ SentPrompt[q + 1].b = rag_call.arg
                  /\ \A r \in instructions : q + 1 < r /\ \A c \in cite : r < c

C12_Witness ==
    /\ LastWasAnswer /\ ~StoreRaised /\ Len(Retrieved) = 2
    /\ ~Retrieved[1].metadata.source.some /\ Retrieved[2].metadata.source.some
    /\ Len(LlmCalls) = 1

\* C13: in every AnswerResult, sources has one entry per retrieved passage in
\* retrieval order; an entry's text is the passage text when that text has at
\* most 300 characters and otherwise its first 300 characters followed by
\* '...' (never more than 303 characters); num_sources is len(sources) and
\* has_sources is true exactly when len(sources) > 0.
C13_Previews ==
    (LastWasAnswer /\ rag_ret.kind = "return") =>
        LET result == rag_ret.result
        IN  /\ Len(result.sources) = Len(Retrieved)
            /\ \A i \in 1..Len(Retrieved) :
                  LET text == Retrieved[i].text
                      shown == result.sources[i].text
                  IN  /\ result.sources[i].metadata = Retrieved[i].metadata
                      /\ text.len <= 300 => shown = text
                      /\ text.len > 300 =>
                            shown = [doc |-> text.doc, len |-> 300, marker |-> "..."]
                      /\ TextLen(shown) <= 303
            /\ result.num_sources = Len(result.sources)
            /\ result.has_sources = (Len(result.sources) > 0)

C13_Witness ==
    /\ LastWasAnswer /\ rag_ret.kind = "return" /\ rag_ret.result.num_sources = 2
    /\ \E i, j \in 1..2 :
          /\ rag_ret.result.sources[i].text.marker = "..."
          /\ rag_ret.result.sources[j].text = PassageText("guide", 300)

\* C14 (as claimed): answer() is stateless across queries: a call leaves the
\* knowledge base contents unchanged and retains no per-query state in the
\* agent or its generation wrapper; in particular the wrapper's history of
\* past prompts and responses does not grow with the number of answer() calls.
C14_Step ==
    Answer =>
        /\ collection' = collection
        /\ knowledge_base' = knowledge_base
        /\ persona' = persona
        /\ Len(history') <= Len(history)
        /\ \A i \in 1..Len(history') :
              history'[i] \in Range(history)
C14_Stateless == [][C14_Step]_vars
====
